---- MODULE Spec2Model ----
(***************************************************************************)
(* A model of advanced_hash (src/my_project/src/main.rs): the 4 x u128     *)
(* state, the per-(round, byte) worker threads, the join/merge loop and    *)
(* the truncation to a 32-byte digest.                                     *)
(*                                                                         *)
(* A u128 is kept at its full width as 16 little-endian bytes (a sequence  *)
(* of 16 numbers in 0..255, least significant first), because TLC's        *)
(* integers are 32 bits wide.  All of the arithmetic below is the u128     *)
(* arithmetic of the source written out over those bytes.                  *)
(***************************************************************************)
EXTENDS Integers, Sequences, FiniteSets, TLC

\* The state of one call of advanced_hash.
VARIABLES
    input, salt, pepper,  \* the arguments
    pc,                   \* where the calling thread is
    state,                \* let mut state: [u128; 4]
    combined_input,       \* the bytes of combined_input
    round,                \* the outer loop's round
    byte_idx,             \* the next byte of combined_input.bytes(), from 1
    local_state,          \* let mut local_state, of the current round
    threads,              \* the JoinHandles pushed so far, with their threads
    joined,               \* how many handles the join loop has consumed
    final_hash,           \* the returned [u8; 32]; << >> before the return
    spawn_failed,         \* whether a thread::spawn of this call has failed
    hr_args,              \* a call of hash_round on its own: <<state, mixed_input, round>>
    hr_out                \* the array that call leaves; << >> before it

vars == <<input, salt, pepper, pc, state, combined_input, round, byte_idx,
          local_state, threads, joined, final_hash, spawn_failed,
          hr_args, hr_out>>

\* The variables of a call of advanced_hash.
callvars == <<input, salt, pepper, pc, state, combined_input, round, byte_idx,
              local_state, threads, joined, final_hash, spawn_failed>>

----------------------------------------------------------------------------
(* u128 arithmetic *)

WordBytes == 16

\* The 16 bytes F(1), ..., F(16), each computed once.
Word16(F(_)) ==
    <<F(1), F(2), F(3), F(4), F(5), F(6), F(7), F(8),
      F(9), F(10), F(11), F(12), F(13), F(14), F(15), F(16)>>

\* The array [F(0), F(1), F(2), F(3)] of a [u128; 4].
Array4(F(_)) == (0 :> F(0)) @@ (1 :> F(1)) @@ (2 :> F(2)) @@ (3 :> F(3))

Pow2(n) == IF n = 0 THEN 1 ELSE IF n = 1 THEN 2 ELSE IF n = 2 THEN 4
           ELSE IF n = 3 THEN 8 ELSE IF n = 4 THEN 16 ELSE IF n = 5 THEN 32
           ELSE IF n = 6 THEN 64 ELSE IF n = 7 THEN 128 ELSE 256

\* XOR of two bits-wide numbers, bit by bit.
RECURSIVE XorBits(_, _, _)
XorBits(a, b, bits) ==
    IF bits = 0 THEN 0
    ELSE ((a + b) % 2) + 2 * XorBits(a \div 2, b \div 2, bits - 1)

\* The XOR of two 4-bit numbers, tabulated once.
XorNibble == [a \in 0..15 |-> [b \in 0..15 |-> XorBits(a, b, 4)]]

XorByte(a, b) == 16 * XorNibble[a \div 16][b \div 16] + XorNibble[a % 16][b % 16]

\* u128 ^ u128
XorWord(a, b) == Word16(LAMBDA k : XorByte(a[k], b[k]))

\* The u128 of a number below 2^31.
WordOf(n) ==
    Word16(LAMBDA k :
        IF k = 1 THEN n % 256
        ELSE IF k = 2 THEN (n \div 256) % 256
        ELSE IF k = 3 THEN (n \div 65536) % 256
        ELSE IF k = 4 THEN (n \div 16777216) % 256
        ELSE 0)

\* The u128 whose low 8 bytes are given most significant first, as a hex
\* literal of the source reads.
WordOfHex(bs) ==
    Word16(LAMBDA k : IF k <= Len(bs) THEN bs[Len(bs) + 1 - k] ELSE 0)

\* u128 & 0xff
AndFF(a) == Word16(LAMBDA k : IF k = 1 THEN a[1] ELSE 0)

\* The bytes from position k on of a + b with carry c, dropping the carry out
\* of byte 16 (wrapping_add).
RECURSIVE AddFrom(_, _, _, _)
AddFrom(a, b, k, c) ==
    IF k > WordBytes THEN << >>
    ELSE LET s == a[k] + b[k] + c
         IN  <<s % 256>> \o AddFrom(a, b, k + 1, s \div 256)

WrappingAdd(a, b) == AddFrom(a, b, 1, 0)

\* u128::rotate_left(n)
RotateLeft(a, n) ==
    LET m == n % 128
        q == m \div 8
        s == m % 8
    IN  Word16(LAMBDA k :
            LET lo == a[((k - 1 - q + 2 * WordBytes) % WordBytes) + 1]
                hi == a[((k - 2 - q + 2 * WordBytes) % WordBytes) + 1]
            IN  ((lo * Pow2(s)) % 256) + (hi \div Pow2(8 - s)))

\* u128::rotate_right(n)
RotateRight(a, n) == RotateLeft(a, 128 - (n % 128))

\* Column k (from 0) of the schoolbook product of a and b.
RECURSIVE MulColumn(_, _, _, _)
MulColumn(a, b, k, i) ==
    IF i > k THEN 0
    ELSE a[i + 1] * b[k - i + 1] + MulColumn(a, b, k, i + 1)

RECURSIVE MulFrom(_, _, _, _)
MulFrom(a, b, k, c) ==
    IF k >= WordBytes THEN << >>
    ELSE LET s == MulColumn(a, b, k, 0) + c
         IN  <<s % 256>> \o MulFrom(a, b, k + 1, s \div 256)

\* u128::wrapping_mul: the low 128 bits of the product.
WrappingMul(a, b) == MulFrom(a, b, 0, 0)

\* The low 64 bits and the high 64 bits of a u128, each as a u128.
LowHalf(a) == Word16(LAMBDA k : IF k <= 8 THEN a[k] ELSE 0)
HighHalf(a) == Word16(LAMBDA k : IF k <= 8 THEN a[k + 8] ELSE 0)

AllOnes64 == Word16(LAMBDA k : IF k <= 8 THEN 255 ELSE 0)
ZeroWord == Word16(LAMBDA k : 0)

\* a % 0xffffffffffffffff.  2^64 = 1 modulo 2^64 - 1, so a is congruent to
\* the sum of its two 64-bit halves; that sum is below 2^65 and is folded
\* once more, which leaves a value of at most 2^64 - 1, and 2^64 - 1 itself
\* is congruent to 0.
ModAllOnes64(a) ==
    LET s1 == WrappingAdd(LowHalf(a), HighHalf(a))
        s2 == WrappingAdd(LowHalf(s1), HighHalf(s1))
    IN  IF s2 = AllOnes64 THEN ZeroWord ELSE s2

----------------------------------------------------------------------------
(* The hash *)

\* const ROUNDS: usize = 256
ROUNDS == 256

\* const PRIME: u128 = 0x100000001b3
PRIME == WordOfHex(<<1, 0, 0, 0, 1, 179>>)

\* 0xffffffffffffffff is AllOnes64 above.

\* modular_non_linear_transform
modular_non_linear_transform(value) ==
    LET rotated == RotateRight(value, 23)
    IN  ModAllOnes64(WrappingMul(XorWord(value, rotated), PRIME))

\* state[i] ^= state[(i + 1) % 4], the last statement of hash_round's loop
\* body: the neighbour is read from the array as it is at that moment.
CrossMix(st, i) ==
    [st EXCEPT ![i] = XorWord(st[i], st[(i + 1) % 4])]

\* The body of hash_round's loop for index i, on the array as it stands.
HashRoundBody(st, mixed_input, r, i) ==
    LET s1 == XorWord(st[i], mixed_input)
        s2 == WrappingAdd(s1, PRIME)
        s3 == RotateLeft(s2, (r % 16) + i * 8)
        s4 == modular_non_linear_transform(s3)
    IN  CrossMix([st EXCEPT ![i] = s4], i)

RECURSIVE HashRoundLoop(_, _, _, _)
HashRoundLoop(st, mixed_input, r, i) ==
    IF i >= 4 THEN st
    ELSE HashRoundLoop(HashRoundBody(st, mixed_input, r, i),
                       mixed_input, r, i + 1)

\* A wrong hash_round: every word is mixed against the array as it was on
\* entry, so that word 3 too is XORed with its neighbour's entry value.
HashRoundSimd(st, mixed_input, r) ==
    Array4(LAMBDA i : HashRoundBody(st, mixed_input, r, i)[i])

\* hash_round: for i in 0..4, in place.
hash_round(st, mixed_input, r) ==
    HashRoundLoop(st, mixed_input, r, 0)

\* The initial state of advanced_hash.
IV ==
    Array4(LAMBDA i :
        CASE i = 0 -> WordOfHex(<<106, 9, 230, 103, 243, 188, 201, 8>>)
          [] i = 1 -> WordOfHex(<<187, 103, 174, 133, 132, 202, 167, 59>>)
          [] i = 2 -> WordOfHex(<<60, 110, 243, 114, 254, 148, 248, 43>>)
          [] i = 3 -> WordOfHex(<<165, 79, 245, 58, 95, 29, 54, 241>>))

\* dynamic_salt = (round as u128).wrapping_add(PRIME) ^ (local_state[round % 4] & 0xff)
DynamicSalt(ls, r) ==
    XorWord(WrappingAdd(WordOf(r), PRIME), AndFF(ls[r % 4]))

\* mixed_byte = u128::from(byte).wrapping_add(dynamic_salt)
MixedByte(ls, r, byte) ==
    WrappingAdd(WordOf(byte), DynamicSalt(ls, r))

\* A wrong merge that depends on the order of the results: the accumulator
\* is rotated before each XOR.
MergeRotated(st, thread_state) ==
    Array4(LAMBDA i : XorWord(RotateLeft(st[i], 1), thread_state[i]))

\* A wrong merge in which two equal results do not cancel: wrapping addition.
MergeAdd(st, thread_state) ==
    Array4(LAMBDA i : WrappingAdd(st[i], thread_state[i]))

\* for i in 0..4 { state[i] ^= thread_state[i] }
Merge(st, thread_state) ==
    Array4(LAMBDA i : XorWord(st[i], thread_state[i]))

\* A wrong truncation: the high 8 bytes of the word.
HighLeBytes(chunk) == SubSeq(chunk, 9, 16)

\* chunk.to_le_bytes()[..8]
LowLeBytes(chunk) == SubSeq(chunk, 1, 8)

\* final_hash: the low 8 little-endian bytes of each word, in word order.
Finalize(st) ==
    LowLeBytes(st[0]) \o LowLeBytes(st[1]) \o
    LowLeBytes(st[2]) \o LowLeBytes(st[3])

----------------------------------------------------------------------------
(* Strings *)

\* A &str is a sequence of characters (code points); its bytes are its UTF-8
\* encoding, which is what format! concatenates and .bytes() iterates.
Utf8(c) ==
    IF c < 128 THEN <<c>>
    ELSE IF c < 2048 THEN <<192 + (c \div 64), 128 + (c % 64)>>
    ELSE IF c < 65536 THEN
        <<224 + (c \div 4096), 128 + ((c \div 64) % 64), 128 + (c % 64)>>
    ELSE <<240 + (c \div 262144), 128 + ((c \div 4096) % 64),
           128 + ((c \div 64) % 64), 128 + (c % 64)>>

RECURSIVE StrBytes(_)
StrBytes(s) == IF s = << >> THEN << >> ELSE Utf8(Head(s)) \o StrBytes(Tail(s))

\* format!("{}{}{}", pepper, input, salt)
CombinedInput(inp, slt, pep) ==
    StrBytes(pep) \o StrBytes(inp) \o StrBytes(slt)

----------------------------------------------------------------------------
(* Bounds and inputs *)

\* The model runs the first MaxRounds of the ROUNDS rounds.
MaxRounds == 2

NumRounds == IF MaxRounds < ROUNDS THEN MaxRounds ELSE ROUNDS

\* 'a', 'b', U+1001 and U+1040 (UTF-8: E1 80 81 and E1 81 80).
Chars == {97, 98, 4097, 4160}

\* The (input, salt, pepper) triples advanced_hash is called with.
Args ==
    { <<<< >>, << >>, << >>>>,
      <<<<97>>, << >>, << >>>>,
      <<<<97, 97>>, << >>, << >>>>,
      <<<<97, 98>>, << >>, << >>>>,
      <<<<98, 97>>, << >>, << >>>>,
      <<<<97>>, <<98>>, << >>>>,
      <<<<98>>, << >>, <<97>>>>,
      <<<< >>, <<97>>, <<97>>>>,
      <<<<4097>>, << >>, << >>>> }

\* The bytes of the characters of Chars.
RECURSIVE SeqSet(_)
SeqSet(s) == IF s = << >> THEN {} ELSE {Head(s)} \cup SeqSet(Tail(s))

CharBytes == UNION {SeqSet(Utf8(c)) : c \in Chars}

\* hash_round is a function of its arguments alone.  Its values on the
\* arguments the workers of the modelled calls are started with (the IV, a
\* round below NumRounds, the mixed byte of a byte of CharBytes) are tabulated
\* here once, so that TLC does not recompute them in every state.
RECURSIVE HashRoundRow(_, _)
HashRoundRow(r, bytes) ==
    IF bytes = {} THEN << >>
    ELSE LET b == CHOOSE x \in bytes : TRUE
             m == MixedByte(IV, r, b)
         IN  (m :> hash_round(IV, m, r)) @@ HashRoundRow(r, bytes \ {b})

RECURSIVE HashRoundRows(_)
HashRoundRows(r) ==
    IF r >= NumRounds THEN << >>
    ELSE (r :> HashRoundRow(r, CharBytes)) @@ HashRoundRows(r + 1)

HashRoundTable == HashRoundRows(0)

\* Likewise the mixed byte of lines 62-63 for a local_state equal to the IV.
RECURSIVE MixedByteRow(_, _)
MixedByteRow(r, bytes) ==
    IF bytes = {} THEN << >>
    ELSE LET b == CHOOSE x \in bytes : TRUE
         IN  (b :> MixedByte(IV, r, b)) @@ MixedByteRow(r, bytes \ {b})

RECURSIVE MixedByteRows(_)
MixedByteRows(r) ==
    IF r >= NumRounds THEN << >>
    ELSE (r :> MixedByteRow(r, CharBytes)) @@ MixedByteRows(r + 1)

MixedByteTable == MixedByteRows(0)

BaseMixedByte(r, byte) ==
    IF r \in DOMAIN MixedByteTable /\ byte \in DOMAIN MixedByteTable[r]
    THEN MixedByteTable[r][byte]
    ELSE MixedByte(IV, r, byte)

\* The closure a worker thread runs: hash_round on chunk_state, its own copy
\* of the captured local_state; its value is chunk_state afterwards.
ThreadBody(ls, mixed_byte, r) ==
    IF ls = IV /\ r \in DOMAIN HashRoundTable
              /\ mixed_byte \in DOMAIN HashRoundTable[r]
    THEN HashRoundTable[r][mixed_byte]
    ELSE hash_round(ls, mixed_byte, r)

----------------------------------------------------------------------------
(* advanced_hash as a state machine: the calling thread and the workers *)

\* Lines 47-58: the state after the prologue of advanced_hash.
Init ==
    /\ \E a \in Args : input = a[1] /\ salt = a[2] /\ pepper = a[3]
    /\ state = IV
    /\ combined_input = CombinedInput(input, salt, pepper)
    /\ threads = << >>
    /\ round = 0
    /\ byte_idx = 1
    /\ local_state = IV
    /\ joined = 0
    /\ final_hash = << >>
    /\ spawn_failed = FALSE
    /\ pc = "round"
    /\ hr_args = << >>
    /\ hr_out = << >>

\* A wrong capture: the closure works on the caller's local_state itself, so
\* that the next unit of the round starts from this unit's result.
AfterMoveShared(ls, mixed_byte, r) == hash_round(ls, mixed_byte, r)

\* What local_state holds after thread::spawn(move || ...): the closure
\* takes a copy ([u128; 4] is Copy), so the caller's array is untouched.
AfterMove(ls, mixed_byte, r) == ls

\* A wrong handling of a failed spawn: the unit is skipped and the loop goes on.
OnSpawnFailureSkip == "byte"

\* What the calling thread does when thread::spawn cannot create a thread:
\* thread::spawn panics, and the panic unwinds out of advanced_hash.
OnSpawnFailure == "panicked"

\* A join that does not wait.
JoinReturnsAtOnce(h) == TRUE

\* Whether handle.join() can return: it blocks until the thread has ended.
JoinReturns(h) == h.status # "running"

\* A join loop that merges whatever the handle holds, Ok or Err.
JoinResultUnchecked(st, h) == Merge(st, h.chunk_state)

\* if let Ok(thread_state) = handle.join() { state ^= thread_state }: what
\* the join of handle h leaves in state.
JoinResult(st, h) ==
    IF h.status = "done" THEN Merge(st, h.chunk_state) ELSE st

\* for round in 0..ROUNDS { let mut local_state = state.clone(); ...
NextRound ==
    /\ pc = "round"
    /\ round < NumRounds
    /\ local_state' = state
    /\ byte_idx' = 1
    /\ pc' = "byte"
    /\ UNCHANGED <<input, salt, pepper, state, combined_input, round, threads,
                   joined, final_hash, spawn_failed,
                   hr_args, hr_out>>

\* The outer loop ends; the join loop begins.
RoundsDone ==
    /\ pc = "round"
    /\ round >= NumRounds
    /\ pc' = "join"
    /\ UNCHANGED <<input, salt, pepper, state, combined_input, round, byte_idx,
                   local_state, threads, joined, final_hash, spawn_failed,
                   hr_args, hr_out>>

\* One pass of the inner loop: dynamic_salt, mixed_byte, thread::spawn, push.
SpawnUnit ==
    /\ pc = "byte"
    /\ byte_idx <= Len(combined_input)
    /\ LET byte == combined_input[byte_idx]
           mixed_byte == MixedByte(local_state, round, byte)
       IN  /\ threads' = Append(threads,
                            [local_state |-> local_state,
                             mixed_byte |-> mixed_byte,
                             round |-> round,
                             status |-> "running",
                             chunk_state |-> local_state])
           /\ local_state' = AfterMove(local_state, mixed_byte, round)
    /\ byte_idx' = byte_idx + 1
    /\ UNCHANGED <<input, salt, pepper, pc, state, combined_input, round,
                   joined, final_hash, spawn_failed,
                   hr_args, hr_out>>

\* thread::spawn fails to create the thread.
SpawnFails ==
    /\ pc = "byte"
    /\ byte_idx <= Len(combined_input)
    /\ spawn_failed' = TRUE
    /\ pc' = OnSpawnFailure
    /\ byte_idx' = byte_idx + 1
    /\ UNCHANGED <<input, salt, pepper, state, combined_input, round,
                   local_state, threads, joined, final_hash, hr_args, hr_out>>

\* The inner loop ends: the next round.
BytesDone ==
    /\ pc = "byte"
    /\ byte_idx > Len(combined_input)
    /\ round' = round + 1
    /\ pc' = "round"
    /\ UNCHANGED <<input, salt, pepper, state, combined_input, byte_idx,
                   local_state, threads, joined, final_hash, spawn_failed,
                   hr_args, hr_out>>

\* A wrong worker, which XORs its result into the caller's state itself.
ThreadRunWritesState(t) ==
    /\ pc # "panicked"
    /\ threads[t].status = "running"
    /\ threads' = [threads EXCEPT
                     ![t].status = "done",
                     ![t].chunk_state = ThreadBody(threads[t].local_state,
                                                   threads[t].mixed_byte,
                                                   threads[t].round)]
    /\ state' = Merge(state, threads'[t].chunk_state)
    /\ UNCHANGED <<input, salt, pepper, pc, combined_input, round,
                   byte_idx, local_state, joined, final_hash, spawn_failed,
                   hr_args, hr_out>>

\* Worker t runs its closure to the end.
ThreadRun(t) ==
    /\ pc # "panicked"
    /\ threads[t].status = "running"
    /\ threads' = [threads EXCEPT
                     ![t].status = "done",
                     ![t].chunk_state = ThreadBody(threads[t].local_state,
                                                   threads[t].mixed_byte,
                                                   threads[t].round)]
    /\ UNCHANGED <<input, salt, pepper, pc, state, combined_input, round,
                   byte_idx, local_state, joined, final_hash, spawn_failed,
                   hr_args, hr_out>>

\* Worker t ends without a value (it panicked): its join will return Err.
ThreadLost(t) ==
    /\ pc # "panicked"
    /\ threads[t].status = "running"
    /\ threads' = [threads EXCEPT ![t].status = "lost"]
    /\ UNCHANGED <<input, salt, pepper, pc, state, combined_input, round,
                   byte_idx, local_state, joined, final_hash, spawn_failed,
                   hr_args, hr_out>>

\* One pass of the join loop: join the next handle, merge on Ok.
JoinNext ==
    /\ pc = "join"
    /\ joined < Len(threads)
    /\ LET h == threads[joined + 1]
       IN  /\ JoinReturns(h)
           /\ state' = JoinResult(state, h)
    /\ joined' = joined + 1
    /\ UNCHANGED <<input, salt, pepper, pc, combined_input, round, byte_idx,
                   local_state, threads, final_hash,
                   spawn_failed, hr_args, hr_out>>

\* Lines 86-92: the digest is cut from state and returned.
Return ==
    /\ pc = "join"
    /\ joined >= Len(threads)
    /\ final_hash' = Finalize(state)
    /\ pc' = "done"
    /\ UNCHANGED <<input, salt, pepper, state, combined_input, round, byte_idx,
                   local_state, threads, joined,
                   spawn_failed, hr_args, hr_out>>

Next ==
    \/ NextRound
    \/ RoundsDone
    \/ SpawnUnit
    \/ SpawnFails
    \/ BytesDone
    \/ \E t \in 1..Len(threads) : ThreadRun(t)
    \/ \E t \in 1..Len(threads) : ThreadLost(t)
    \/ JoinNext
    \/ Return

Spec == Init /\ [][Next]_vars

----------------------------------------------------------------------------
(* hash_round on its own, on arguments other than those advanced_hash passes *)

\* The IV with its words moved round by one place.
ShiftedIV == Array4(LAMBDA i : IV[(i + 1) % 4])

\* Arrays with words above 64 bits, and with equal words.
WideState == Array4(LAMBDA i : RotateLeft(IV[i], 60 + i))
EqualState == Array4(LAMBDA i : PRIME)

MixerStates == {IV, ShiftedIV, WideState, EqualState}

MixerInputs ==
    {ZeroWord, PRIME, WordOf(97), MixedByte(IV, 0, 97), RotateLeft(IV[3], 64)}

\* Rounds of 0..ROUNDS-1 whose rotation amounts (round % 16, +8, +16, +24)
\* differ.
MixerRounds == {0, 1, 7, 15, 16, ROUNDS - 1}

InitMixer ==
    /\ input = << >> /\ salt = << >> /\ pepper = << >>
    /\ state = IV
    /\ combined_input = << >>
    /\ threads = << >>
    /\ round = 0
    /\ byte_idx = 1
    /\ local_state = IV
    /\ joined = 0
    /\ final_hash = << >>
    /\ spawn_failed = FALSE
    /\ pc = "hash_round"
    /\ hr_args \in MixerStates \X MixerInputs \X MixerRounds
    /\ hr_out = << >>

\* hash_round(&mut hr_args[1], hr_args[2], hr_args[3])
MixerCall ==
    /\ pc = "hash_round"
    /\ hr_out = << >>
    /\ hr_out' = hash_round(hr_args[1], hr_args[2], hr_args[3])
    /\ UNCHANGED <<callvars, hr_args>>

NextMixer == MixerCall

SpecMixer == InitMixer /\ [][NextMixer]_vars

----------------------------------------------------------------------------
(* advanced_hash as a function: every worker reports, one after the other *)

\* The captures of the closures the inner loop of round r creates from
\* byte k on.
RECURSIVE RoundUnits(_, _, _, _)
RoundUnits(ls, bytes, r, k) ==
    IF k > Len(bytes) THEN << >>
    ELSE LET mixed_byte == MixedByte(ls, r, bytes[k])
         IN  <<[local_state |-> ls, mixed_byte |-> mixed_byte, round |-> r]>>
             \o RoundUnits(AfterMove(ls, mixed_byte, r), bytes, r, k + 1)

\* The captures of all the closures, in the order of the threads vector.
RECURSIVE AllUnits(_, _, _)
AllUnits(st, bytes, r) ==
    IF r >= NumRounds THEN << >>
    ELSE RoundUnits(st, bytes, r, 1) \o AllUnits(st, bytes, r + 1)

\* The join loop from handle k on, every join returning Ok.
RECURSIVE JoinAll(_, _, _)
JoinAll(st, units, k) ==
    IF k > Len(units) THEN st
    ELSE JoinAll(Merge(st, ThreadBody(units[k].local_state,
                                      units[k].mixed_byte, units[k].round)),
                 units, k + 1)

advanced_hash(inp, slt, pep) ==
    Finalize(JoinAll(IV, AllUnits(IV, CombinedInput(inp, slt, pep), 0), 1))

----------------------------------------------------------------------------
(* Properties *)

NumUnits == NumRounds * Len(combined_input)

AllReported == \A t \in 1..Len(threads) : threads[t].status = "done"

\* What worker t's closure returns.
UnitResult(t) ==
    ThreadBody(threads[t].local_state, threads[t].mixed_byte, threads[t].round)

\* The results of the workers in the order ord (a sequence of handle
\* indices), merged into st one after the other from position k on.
RECURSIVE MergeInOrder(_, _, _)
MergeInOrder(st, ord, k) ==
    IF k > Len(ord) THEN st
    ELSE MergeInOrder(Merge(st, UnitResult(ord[k])), ord, k + 1)

\* The order 1..n with positions i and j exchanged.
Swapped(n, i, j) ==
    [k \in 1..n |-> IF k = i THEN j ELSE IF k = j THEN i ELSE k]

\* C1: with every unit reporting, whatever the interleaving of the workers
\* with each other and with the calling thread, the digest returned is the
\* one the sequential run on the same (input, salt, pepper) gives; and
\* merging the workers' results with any two of them exchanged in the order
\* gives the same 4-word state as the order the join loop used.
C1_DigestIndependentOfSchedule ==
    (pc = "done" /\ AllReported) =>
        /\ final_hash = advanced_hash(input, salt, pepper)
        /\ \A i \in 1..Len(threads) : \A j \in (i + 1)..Len(threads) :
              MergeInOrder(IV, Swapped(Len(threads), i, j), 1) = state

\* A call has returned a digest of at least 4 units, all of which reported.
C1_Witness ==
    /\ pc = "done"
    /\ AllReported
    /\ Len(threads) >= 4
    /\ state # IV

\* The positions <<f, k>> of the characters of args = <<input, salt, pepper>>.
CharPositions(args) ==
    {p \in (1..3) \X (1..(Len(args[1]) + Len(args[2]) + Len(args[3]))) :
        p[2] <= Len(args[p[1]])}

\* The arguments that differ from args in exactly one character, which is
\* replaced by another character of Chars.
SingleCharChanges(args) ==
    {[args EXCEPT ![pc2[1][1]][pc2[1][2]] = pc2[2]] :
        pc2 \in {q \in CharPositions(args) \X Chars :
                    args[q[1][1]][q[1][2]] # q[2]}}

\* C2: changing any single character of input, of salt or of pepper, the
\* other two held fixed and all units reporting, changes the digest.
C2_SingleCharChangesDigest ==
    (pc = "done" /\ AllReported) =>
        \A v \in SingleCharChanges(<<input, salt, pepper>>) :
            advanced_hash(v[1], v[2], v[3]) # final_hash

\* C3: every unit is started from the same base snapshot, the IV the state
\* held before any unit began, in every round and at every byte position;
\* the handle at position (r * len + k) is the unit of round r and byte k,
\* and once the spawn loops are over there are NumRounds * len units.
C3_SameBaseSnapshot ==
    /\ \A t \in 1..Len(threads) :
          LET r == (t - 1) \div Len(combined_input)
              k == ((t - 1) % Len(combined_input)) + 1
          IN  /\ threads[t].local_state = IV
              /\ threads[t].round = r
              /\ threads[t].mixed_byte = BaseMixedByte(r, combined_input[k])
    /\ pc \in {"join", "done"} => Len(threads) = NumUnits

\* A unit of round 1 has been started, and is still running, after a unit of
\* round 0 has completed.
C3_Witness ==
    /\ pc = "byte"
    /\ round = 1
    /\ Len(threads) > Len(combined_input)
    /\ threads[1].status = "done"
    /\ threads[Len(threads)].status = "running"
    /\ threads[Len(threads)].round = 1

\* The results of the workers from handle k on that reported, merged into st.
RECURSIVE MergeReported(_, _)
MergeReported(st, k) ==
    IF k > Len(threads) THEN st
    ELSE IF threads[k].status = "done"
         THEN MergeReported(Merge(st, UnitResult(k)), k + 1)
         ELSE MergeReported(st, k + 1)

\* C4: when units are lost the call still returns a digest, and it is the
\* finalization of the IV merged with the result of each unit that reported,
\* once, and of no other.
C4_LostUnitsOmitted ==
    pc = "done" =>
        /\ ~spawn_failed
        /\ final_hash = Finalize(MergeReported(IV, 1))

\* A call has returned with a lost unit and a reporting one.
C4_Witness ==
    /\ pc = "done"
    /\ \E t \in 1..Len(threads) : threads[t].status = "lost"
    /\ \E t \in 1..Len(threads) : threads[t].status = "done"
    /\ Len(final_hash) = 32

C6_DigestAfterAllJoined ==
    (pc = "done" \/ final_hash # << >>) =>
        /\ pc = "done"
        /\ Len(threads) = NumUnits
        /\ joined = Len(threads)
        /\ \A t \in 1..Len(threads) : threads[t].status # "running"

\* A digest of a call with both completed and lost units.
C6_Witness ==
    /\ final_hash # << >>
    /\ joined >= 4
    /\ \E t \in 1..Len(threads) : threads[t].status = "lost"
    /\ threads[Len(threads)].status = "done"

\* C7: when a thread::spawn fails the call ends in a panic and returns no
\* digest, whatever units were scheduled before the failure.
C7_SpawnFailureIsFatal ==
    spawn_failed => (pc = "panicked" /\ final_hash = << >>)

\* A spawn has failed after earlier units were scheduled and had completed.
C7_Witness ==
    /\ spawn_failed
    /\ Len(threads) >= 2
    /\ threads[1].status = "done"

\* The low 8 little-endian bytes of the 4 IV words, from the hex literals of
\* lines 48-51.
IVDigest ==
    <<8, 201, 188, 243, 103, 230, 9, 106,
      59, 167, 202, 132, 133, 174, 103, 187,
      43, 248, 148, 254, 114, 243, 110, 60,
      241, 54, 29, 95, 58, 245, 79, 165>>

\* C8: the digest is 32 bytes for every (input, salt, pepper); with all three
\* empty no unit is scheduled and the digest is the low 8 little-endian bytes
\* of each IV word, in word order.
C8_DigestIs32Bytes ==
    pc = "done" =>
        /\ Len(final_hash) = 32
        /\ \A k \in 1..32 : final_hash[k] \in 0..255
        /\ combined_input = << >> => (threads = << >> /\ final_hash = IVDigest)

\* The call on three empty strings has returned.
C8_Witness ==
    /\ pc = "done"
    /\ input = << >> /\ salt = << >> /\ pepper = << >>
    /\ Len(final_hash) = 32

\* Steps 1 to 4 of hash_round's loop body on word x at index i: XOR with the
\* input, add PRIME, rotate left, non-linear transform.
MixWord(x, mixed_input, r, i) ==
    modular_non_linear_transform(
        RotateLeft(WrappingAdd(XorWord(x, mixed_input), PRIME),
                   (r % 16) + i * 8))

\* C9: in one call of hash_round each word is once the XOR target and once
\* the neighbour source, in index order: words 0, 1 and 2 are XORed with the
\* value word i+1 had on entry, word 3 with word 0 as this call has already
\* updated it.
C9_CrossMixOrder ==
    hr_out # << >> =>
        LET st == hr_args[1]
            m == hr_args[2]
            r == hr_args[3]
            w0 == XorWord(MixWord(st[0], m, r, 0), st[1])
        IN  /\ hr_out[0] = w0
            /\ hr_out[1] = XorWord(MixWord(st[1], m, r, 1), st[2])
            /\ hr_out[2] = XorWord(MixWord(st[2], m, r, 2), st[3])
            /\ hr_out[3] = XorWord(MixWord(st[3], m, r, 3), w0)

\* hash_round has run on an array whose word 0 it changed, so that the
\* entry value and the updated value of word 0 differ.
C9_Witness ==
    /\ hr_out # << >>
    /\ hr_out[0] # hr_args[1][0]
    /\ hr_args[3] = 15

\* The bytes that occur an odd number of times in bytes.
OddBytes(bytes) ==
    {b \in SeqSet(bytes) :
        Cardinality({k \in 1..Len(bytes) : bytes[k] = b}) % 2 = 1}

\* The units of round r on the bytes of set bs, merged into st.
RECURSIVE MergeBytes(_, _, _)
MergeBytes(st, r, bs) ==
    IF bs = {} THEN st
    ELSE LET b == CHOOSE x \in bs : TRUE
         IN  MergeBytes(Merge(st, ThreadBody(IV, MixedByte(IV, r, b), r)),
                        r, bs \ {b})

RECURSIVE MergeRounds(_, _, _)
MergeRounds(st, r, bs) ==
    IF r >= NumRounds THEN st
    ELSE MergeRounds(MergeBytes(st, r, bs), r + 1, bs)

\* C10: with every unit reporting the digest depends only on which byte
\* values occur an odd number of times in pepper + input + salt: it is the
\* IV merged with one unit per round and odd byte value, so that any other
\* arguments with the same odd bytes (the bytes reordered, moved across the
\* pepper/input/salt boundaries, or with two equal bytes added) give the same
\* digest.
C10_DigestOfOddBytes ==
    (pc = "done" /\ AllReported) =>
        /\ final_hash = Finalize(MergeRounds(IV, 0, OddBytes(combined_input)))
        /\ \A a \in Args :
              OddBytes(CombinedInput(a[1], a[2], a[3])) = OddBytes(combined_input)
                  => advanced_hash(a[1], a[2], a[3]) = final_hash

\* The call on input "aa" with empty salt and pepper has returned the digest
\* of the empty input.
C10_Witness ==
    /\ pc = "done"
    /\ AllReported
    /\ input = <<97, 97>> /\ salt = << >> /\ pepper = << >>
    /\ Len(threads) = 2 * NumRounds
    /\ final_hash = IVDigest

====
